---- MODULE Spec2Model ----
(***************************************************************************)
(* A model of SlabAlloc (src/src/realm/alloc_slab.cpp): the slab allocator *)
(* that backs a memory-mapped database file.  Refs are byte offsets; refs  *)
(* below m_baseline address the attached file or buffer, refs at or above  *)
(* it address heap slabs.  Addresses are pairs <<buffer, offset>>: buffer  *)
(* 0 is the region behind m_data, buffer k >= 1 is heap[k].                *)
(***************************************************************************)
EXTENDS Integers, Sequences, FiniteSets, Bags, TLC

\* ------------------------------------------------------------------ bounds
MaxSlabs == 2
MaxLive == 2

\* ------------------------------------------------------- program constants
HeaderSize == 24
FooterSize == 16
initial_size == 4096
SlabGranule == 256
library_file_format == 3
\* size_t and ref_type are unsigned words; arithmetic on them wraps.  The
\* word is modelled 20 bits wide (every ref and size of the model is far
\* below it), and 0xFFFFFFFFFFFFFFFF is the all-ones word.
Word == 1048576
StreamingSentinel == Word - 1
flags_SelectBit == 1
flags_ServerSyncMode == 2

\* Sizes a caller passes to alloc and realloc (multiples of 8, asserted at
\* alloc_slab.cpp:154): half a first slab and a whole first slab
AllocSizes == {128, 256}
\* Sizes a caller passes to remap (file_size % 8 == 0, asserted at :659)
RemapSizes == {4104}

NoAddr == <<-1, -1>>

\* ------------------------------------------------------------- file images
\* The bytes of a database file or user buffer, by field: Header (24 bytes
\* at offset 0) and StreamingFooter (the last 16 bytes).

\* Seeded fault: a new file written with the select bit set
empty_file_header_select_set ==
    [top_ref |-> <<0, 0>>, mnemonic |-> "T-DB",
     file_format |-> <<library_file_format, library_file_format>>,
     reserved |-> 0, flags |-> flags_SelectBit]

empty_file_header ==
    [top_ref |-> <<0, 0>>, mnemonic |-> "T-DB",
     file_format |-> <<library_file_format, library_file_format>>,
     reserved |-> 0, flags |-> 0]

streaming_header ==
    [top_ref |-> <<StreamingSentinel, 0>>, mnemonic |-> "T-DB",
     file_format |-> <<library_file_format, library_file_format>>,
     reserved |-> 0, flags |-> 0]

\* A file image: the header fields, the footer fields and the length
Image(hdr, size, ftop, fcookie) ==
    [exists |-> TRUE, size |-> size, header |-> hdr,
     footer |-> [top_ref |-> ftop, magic_cookie |-> fcookie]]

NoFile == [exists |-> FALSE, size |-> 0, header |-> empty_file_header,
           footer |-> [top_ref |-> 0, magic_cookie |-> "none"]]

\* A zero-length file (header bytes are not there; the fields are unused)
ZeroLengthFile == Image(empty_file_header, 0, 0, "none")

\* The files on disk when the allocator is constructed, by path: a
\* zero-length file, a well-formed file of 64 bytes (top ref 32 in slot 0),
\* and a file with the header of an empty group whose length, 68, is not a
\* multiple of 8
CorePaths == {"empty", "good", "odd"}

InitFiles ==
    [p \in CorePaths |->
        IF p = "empty" THEN ZeroLengthFile
        ELSE IF p = "good"
        THEN Image([empty_file_header EXCEPT !.top_ref = <<32, 0>>], 64, 0, "none")
        ELSE Image(empty_file_header, 68, 0, "none")]

\* Buffers a caller hands to attach_buffer: a canonical one of 64 bytes and
\* one whose top ref is not 8-byte aligned
UserBuffers ==
    { Image([empty_file_header EXCEPT !.top_ref = <<32, 0>>], 64, 0, "none"),
      Image([empty_file_header EXCEPT !.top_ref = <<36, 0>>], 64, 0, "none") }

\* Images that attach_file and attach_buffer reject, one for each check of
\* validate_buffer, and images they accept: one in streaming form, one of
\* file format 2, one created with server synchronization
footer_magic_cookie == "cookie"

RejectedImages ==
    { Image(empty_file_header, 16, 0, "none"),
      Image([empty_file_header EXCEPT !.mnemonic = "X-DB"], 64, 0, "none"),
      Image([empty_file_header EXCEPT !.file_format = <<4, 4>>], 64, 0, "none"),
      Image(streaming_header, 32, 0, footer_magic_cookie),
      Image(streaming_header, 64, 32, "none"),
      Image(streaming_header, 64, 36, footer_magic_cookie),
      Image([empty_file_header EXCEPT !.top_ref = <<64, 0>>], 64, 0, "none") }

AcceptedImages ==
    { Image(streaming_header, 64, 32, footer_magic_cookie),
      Image([empty_file_header EXCEPT !.file_format = <<2, 2>>], 64, 0, "none"),
      Image([empty_file_header EXCEPT !.flags = flags_ServerSyncMode], 64, 0, "none") }

\* The buffers validate_buffer is applied to: every combination of a size
\* below the header, unaligned, below header plus footer, and large enough;
\* a right and a wrong magic; format bytes 2, 3 and 4; the four values of
\* the two flag bits; top refs that are aligned and inside, unaligned,
\* outside, and the streaming sentinel; a footer with and without cookie
ImageSizes == {16, 28, 32, 40}
ImageFormats == {<<3, 3>>, <<2, 2>>, <<3, 2>>, <<2, 3>>, <<4, 4>>}
ImageTopRefs == {32, 36, 40, StreamingSentinel}

HeaderImages ==
    { Image([top_ref |-> <<t0, t1>>, mnemonic |-> m, file_format |-> ff,
             reserved |-> 0, flags |-> fl], size, ft, fc) :
        t0 \in ImageTopRefs, t1 \in {0, 32, 36}, m \in {"T-DB", "X-DB"},
        ff \in ImageFormats, fl \in 0..3, size \in ImageSizes,
        ft \in {32, 36, 40}, fc \in {footer_magic_cookie, "none"} }

\* The arrays stored behind the header of an image with top ref 32:
\* <<ref, byte size>>, as Array::get_byte_size_from_header reports it
BufferArrays == { <<24, 8>>, <<32, 8>> }

ArraysOf(image) ==
    IF image.header.top_ref[1] = 32 /\ 40 <= image.size THEN BufferArrays ELSE {}

\* ------------------------------------------------------------------- state
VARIABLES
    m_attach_mode,            \* "None", "OwnedBuffer", "UsersBuffer", "SharedFile", "UnsharedFile"
    m_data,                   \* "null", "map" (file mapping) or "user" (caller's buffer)
    m_baseline,
    m_slabs,                  \* sequence of [addr, ref_end]
    m_free_space,             \* FM: sequence of [ref, size]
    m_free_read_only,         \* FR: sequence of [ref, size]
    m_free_space_state,       \* "Clean", "Dirty", "Invalid"
    m_file_on_streaming_form,
    m_file_format,
    files,                    \* the files as a process reads them, by path
    disk,                     \* what of each file has reached the storage device
    pc,                       \* position inside do_prepare_for_update, "idle" outside
    m_file,                   \* the path m_file holds open, "" when closed
    heap,                     \* sizes of the buffers owned by slabs; addr k is heap[k]
    live,                     \* bag of the blocks returned by alloc, not freed since the last reset
    ro_live,                  \* arrays of the read-only region not freed since the last reset
    alloc_failed,             \* an allocation failure occurred since the last reset
    destroyed,                \* the destructor has run
    last                      \* the last call and its outcome

vars == <<m_attach_mode, m_data, m_baseline, m_slabs, m_free_space, m_free_read_only,
          m_free_space_state, m_file_on_streaming_form, m_file_format, files, m_file,
          heap, live, ro_live, alloc_failed, destroyed, last, disk, pc>>

alloc_vars == <<m_slabs, m_free_space, m_free_read_only, m_free_space_state, heap>>
io_vars == <<disk, pc>>
attach_vars == <<m_attach_mode, m_data, m_baseline, m_file_on_streaming_form,
                 m_file_format, files, m_file>>

\* The record of a call: its name, its outcome, and the top ref an attach
\* returned or the ref passed to free (0 for every other call)
Call(op, res, ref) == [op |-> op, res |-> res, ref |-> ref]

\* The record of a call of attach_file, with the arguments that decide what
\* it does to the file
AttachFileCall(res, ref, path, is_shared, read_only, server_sync_mode) ==
    [op |-> "attach_file", res |-> res, ref |-> ref, path |-> path,
     is_shared |-> is_shared, read_only |-> read_only,
     server_sync_mode |-> server_sync_mode]

is_attached == m_attach_mode # "None"

\* ---------------------------------------------------------- pure functions
\* unsigned addition and subtraction
Add(a, b) == (a + b) % Word
Sub(a, b) == (a - b + Word) % Word

\* Seeded fault: (size-1) | 255, the increment forgotten
RoundUp256_no_increment(size) ==
    Sub(size, 1) - (Sub(size, 1) % SlabGranule) + (SlabGranule - 1)

\* ((size-1) | 255) + 1
RoundUp256(size) ==
    Add(Sub(size, 1) - (Sub(size, 1) % SlabGranule) + (SlabGranule - 1), 1)

\* Seeded fault: every slab taken to start at the baseline
SlabStart_at_baseline(s, b, i) == b

\* Start of slab i's ref range in slab list s over baseline b
SlabStart(s, b, i) == IF i = 1 THEN b ELSE s[i - 1].ref_end

get_total_size == IF m_slabs = <<>> THEN m_baseline ELSE m_slabs[Len(m_slabs)].ref_end

\* An erase that copies the last element into the slot without pop_back
MoveLastOver_keep_last(s, i) == [s EXCEPT ![i] = s[Len(s)]]

\* Erase by "move last over": *i = back(); pop_back()
MoveLastOver(s, i) ==
    [k \in 1..(Len(s) - 1) |-> IF k = i THEN s[Len(s)] ELSE s[k]]

\* find_if: the first index at which the predicate holds, 0 for end();
\* hits[k] is the predicate's value on element k
FindIf(hits) ==
    IF \E k \in 1..Len(hits) : hits[k]
    THEN CHOOSE k \in 1..Len(hits) : hits[k] /\ \A j \in 1..(k - 1) : ~hits[j]
    ELSE 0

\* upper_bound(slabs, ref, ref_less_than_slab_ref_end): the first slab with
\* ref < ref_end, 0 for end()
UpperBound(s, ref) ==
    FindIf([k \in 1..Len(s) |-> ref < s[k].ref_end])

\* do_translate; NoAddr where the debug assertion i != m_slabs.end() fails
translate_in(s, b, ref) ==
    IF ref < b THEN <<0, ref>>
    ELSE LET i == UpperBound(s, ref) IN
         IF i = 0 THEN NoAddr
         ELSE <<s[i].addr, Sub(ref, SlabStart(s, b, i))>>

translate(ref) == translate_in(m_slabs, m_baseline, ref)

\* Seeded fault: validate_buffer without the upgrade case of file format 2
bad_file_format_strict(file_format, is_shared) == file_format # library_file_format

\* bad_file_format of validate_buffer: the stored format is not the
\* library's, except format 2 under library format 3 through SharedGroup
bad_file_format(file_format, is_shared) ==
    IF file_format = 2 /\ library_file_format = 3 /\ is_shared
    THEN FALSE ELSE file_format # library_file_format

\* validate_buffer: the error raised ("" for none), the top ref, and the
\* value it leaves in m_file_on_streaming_form (which the caller cleared)
validate_buffer(data, size, is_shared) ==
    LET h == data.header
        valid_part == h.flags % 2
        file_format == h.file_format[valid_part + 1]
        ref0 == h.top_ref[valid_part + 1]
        streaming == valid_part = 0 /\ ref0 = StreamingSentinel
        ref == IF streaming THEN data.footer.top_ref ELSE ref0
        R(err, s) == [err |-> err, top_ref |-> IF err = "" THEN ref ELSE 0, streaming |-> s]
    IN  IF size < HeaderSize \/ size % 8 # 0 THEN R("bad size", FALSE)
        ELSE IF h.mnemonic # "T-DB" THEN R("bad magic", FALSE)
        ELSE IF bad_file_format(file_format, is_shared) THEN R("bad format", FALSE)
        ELSE IF streaming /\ size < HeaderSize + FooterSize THEN R("streaming bad size", FALSE)
        ELSE IF streaming /\ data.footer.magic_cookie # footer_magic_cookie THEN R("bad header 1", FALSE)
        ELSE IF ref % 8 # 0 THEN R("bad header 2", streaming)
        ELSE IF ref >= size THEN R("bad header 3", streaming)
        ELSE R("", streaming)

\* ------------------------------------------------------------------- Init
\* The allocator as its constructor leaves it
Constructed ==
    /\ m_attach_mode = "None"
    /\ m_data = "null"
    /\ m_baseline = 0
    /\ m_slabs = <<>>
    /\ m_free_space = <<>>
    /\ m_free_read_only = <<>>
    /\ m_free_space_state = "Clean"
    /\ m_file_on_streaming_form = FALSE
    /\ m_file_format = 0
    /\ m_file = ""
    /\ heap = <<>>
    /\ live = EmptyBag
    /\ ro_live = {}
    /\ alloc_failed = FALSE
    /\ destroyed = FALSE
    /\ last = Call("init", "ok", 0)
    /\ pc = "idle"

Init ==
    /\ Constructed
    /\ files = InitFiles
    /\ disk = InitFiles


\* Seeded fault: a close guard that leaves the file open on a throw
CloseGuard_released(path) == path

\* File::CloseGuard fcg(m_file): what m_file holds open after a throw
CloseGuard(path) == ""

\* Seeded fault: the stored server-sync bit read as clear
stored_server_sync_mode_clear(image) == FALSE

\* (header->m_flags & flags_ServerSyncMode) != 0
stored_server_sync_mode(image) == (image.header.flags \div flags_ServerSyncMode) % 2 = 1

\* Seeded fault: attach_file without its last assignment
FreeSpaceAfterAttachFile_kept(state) == state

\* m_free_space_state = free_space_Invalid at the end of attach_file
FreeSpaceAfterAttachFile(state) == "Invalid"

\* ------------------------------------------------------------ attachment
\* attach_file.  The inputs are the call's flags and whether decryption of
\* the mapping fails.  On every throw the CloseGuard closes m_file; what was
\* written to the file stays written.
attach_file(path, is_shared, read_only, no_create, skip_validate, encrypted, server_sync_mode, decrypt_fails) ==
    LET \* m_file.open(path, access, create, 0)
        create_never == read_only \/ no_create
        file == files[path]
        opened == IF file.exists THEN file ELSE ZeroLengthFile
        did_create == opened.size = 0
        \* write(empty_file_header); prealloc(0, initial_size)
        written == IF did_create
                   THEN Image(empty_file_header, initial_size, 0, "none")
                   ELSE opened
        size == written.size
        v == IF skip_validate THEN [err |-> "", top_ref |-> 0, streaming |-> FALSE]
             ELSE validate_buffer(written, size, is_shared)
        \* header->m_flags |= server_sync_mode ? flags_ServerSyncMode : 0x0
        flagged == IF did_create /\ server_sync_mode /\ ~stored_server_sync_mode(written)
                   THEN [written EXCEPT !.header.flags = @ + flags_ServerSyncMode]
                   ELSE written
        select_field == flagged.header.flags % 2
        \* m_file.sync() after the header of a new file is written
        persisted(f) == IF did_create /\ f = written THEN written ELSE disk[path]
        Throw(res, f, streaming) ==
            /\ files' = [files EXCEPT ![path] = f]
            /\ disk' = [disk EXCEPT ![path] = persisted(f)]
            /\ m_file' = CloseGuard(path)
            /\ m_file_on_streaming_form' = streaming
            /\ last' = AttachFileCall(res, 0, path, is_shared, read_only, server_sync_mode)
            /\ UNCHANGED <<m_attach_mode, m_data, m_baseline, m_file_format,
                           m_free_space_state>>
    IN  /\ ~destroyed /\ pc = "idle"
        /\ ~is_attached
        /\ ~(is_shared /\ read_only)
        /\ decrypt_fails => encrypted
        /\ IF ~file.exists /\ create_never
              THEN Throw("open failed", file, m_file_on_streaming_form)
           ELSE IF did_create /\ read_only
              THEN Throw("InvalidDatabase: read-only empty", opened, m_file_on_streaming_form)
           ELSE IF decrypt_fails
              THEN Throw("InvalidDatabase: decryption failed", written, m_file_on_streaming_form)
           ELSE IF v.err # ""
              THEN Throw("InvalidDatabase: " \o v.err, written, v.streaming)
           ELSE IF ~did_create /\ server_sync_mode # stored_server_sync_mode(written)
              THEN Throw("InvalidDatabase: server sync mismatch", written, v.streaming)
           ELSE /\ files' = [files EXCEPT ![path] = flagged]
                /\ disk' = [disk EXCEPT ![path] = persisted(written)]
                /\ m_file' = path
                /\ m_file_on_streaming_form' = v.streaming
                /\ m_file_format' = flagged.header.file_format[select_field + 1]
                /\ m_data' = "map"
                /\ m_baseline' = size
                /\ m_attach_mode' = IF is_shared THEN "SharedFile" ELSE "UnsharedFile"
                /\ m_free_space_state' = FreeSpaceAfterAttachFile(m_free_space_state)
                /\ last' = AttachFileCall("ok", v.top_ref, path, is_shared, read_only,
                                        server_sync_mode)
        /\ ro_live' = IF m_attach_mode' # "None" THEN ArraysOf(files[path]) ELSE {}
        /\ live' = EmptyBag
        /\ UNCHANGED <<m_slabs, m_free_space, m_free_read_only, heap,
                       alloc_failed, destroyed, pc>>

AttachFile ==
    \E path \in DOMAIN files :
    \E is_shared, read_only, no_create, skip_validate, encrypted, server_sync_mode,
       decrypt_fails \in BOOLEAN :
        attach_file(path, is_shared, read_only, no_create, skip_validate, encrypted,
                    server_sync_mode, decrypt_fails)

\* attach_buffer(data, size)
attach_buffer(data, size) ==
    LET v == validate_buffer(data, size, FALSE)
        select_field == data.header.flags % 2
    IN  /\ ~destroyed /\ pc = "idle"
        /\ ~is_attached
        /\ m_file_on_streaming_form' = v.streaming
        /\ IF v.err # ""
           THEN /\ last' = Call("attach_buffer", "InvalidDatabase: " \o v.err, 0)
                /\ UNCHANGED <<m_attach_mode, m_data, m_baseline, m_file_format>>
           ELSE /\ m_file_format' = data.header.file_format[select_field + 1]
                /\ m_data' = "user"
                /\ m_baseline' = size
                /\ m_attach_mode' = "UsersBuffer"
                /\ last' = Call("attach_buffer", "ok", v.top_ref)
        /\ ro_live' = IF v.err = "" THEN ArraysOf(data) ELSE {}
        /\ live' = EmptyBag
        /\ UNCHANGED <<m_slabs, m_free_space, m_free_read_only, m_free_space_state,
                       files, m_file, heap, alloc_failed, destroyed, io_vars>>

AttachBuffer == \E data \in UserBuffers : attach_buffer(data, data.size)

\* attach_empty()
AttachEmpty ==
    /\ ~destroyed /\ pc = "idle"
    /\ ~is_attached
    /\ m_attach_mode' = "OwnedBuffer"
    /\ m_data' = "null"
    /\ m_baseline' = HeaderSize
    /\ last' = Call("attach_empty", "ok", 0)
    /\ ro_live' = {}
    /\ live' = EmptyBag
    /\ UNCHANGED <<m_slabs, m_free_space, m_free_read_only, m_free_space_state,
                   m_file_on_streaming_form, m_file_format, files, m_file,
                   heap, alloc_failed, destroyed, io_vars>>


\* -------------------------------------------------------------- allocator
\* The allocator's bookkeeping as one value, so that realloc can run
\* do_alloc and then do_free on its result
Book == [slabs |-> m_slabs, free_space |-> m_free_space,
         free_read_only |-> m_free_read_only, state |-> m_free_space_state,
         heap |-> heap]

\* A scan from begin() instead of rbegin(): the lowest index that fits
ScanFreeSpace_forward(fs, size) ==
    IF \E k \in 1..Len(fs) : size <= fs[k].size
    THEN CHOOSE k \in 1..Len(fs) :
            /\ size <= fs[k].size
            /\ \A j \in 1..(k - 1) : ~(size <= fs[j].size)
    ELSE 0

\* The reverse scan of do_alloc: the highest index i with size <= i->size,
\* 0 when the scan reaches rend()
ScanFreeSpace(fs, size) ==
    IF \E k \in 1..Len(fs) : size <= fs[k].size
    THEN CHOOSE k \in 1..Len(fs) :
            /\ size <= fs[k].size
            /\ \A j \in (k + 1)..Len(fs) : ~(size <= fs[j].size)
    ELSE 0

\* Seeded fault: i->ref += size forgotten
TakeFromChunk_ref_kept(fs, i, size) ==
    LET rest == Sub(fs[i].size, size) IN
    IF rest = 0
    THEN [k \in 1..(Len(fs) - 1) |-> IF k = i THEN fs[Len(fs)] ELSE fs[k]]
    ELSE [fs EXCEPT ![i].size = rest]

\* A split that moves the chunk's ref but keeps its size
TakeFromChunk_size_kept(fs, i, size) ==
    LET rest == Sub(fs[i].size, size) IN
    IF rest = 0
    THEN [k \in 1..(Len(fs) - 1) |-> IF k = i THEN fs[Len(fs)] ELSE fs[k]]
    ELSE [fs EXCEPT ![i].ref = Add(fs[i].ref, size)]

\* "Update free list" of do_alloc on a hit at index i
TakeFromChunk(fs, i, size) ==
    LET rest == Sub(fs[i].size, size) IN
    IF rest = 0
    THEN MoveLastOver(fs, i)
    ELSE [fs EXCEPT ![i] = [ref |-> Add(fs[i].ref, size), size |-> rest]]

\* Seeded fault: a new slab only as large as the rounded request
NewSlabSize_no_doubling(slabs, b, size) == RoundUp256(size)

\* The size of the slab do_alloc creates for a request of `size`
NewSlabSize(slabs, b, size) ==
    LET new_size == RoundUp256(size) IN
    IF slabs = <<>> THEN new_size
    ELSE LET n == Len(slabs)
             curr_ref_end == slabs[n].ref_end
             prev_ref_end == IF n = 1 THEN b ELSE slabs[n - 1].ref_end
             min_size == (2 * Sub(curr_ref_end, prev_ref_end)) % Word
         IN  IF new_size < min_size THEN min_size ELSE new_size

\* A new slab placed at the baseline whatever slabs exist
NewSlabRef_at_baseline(slabs, b) == b

\* The ref at which do_alloc places a new slab
NewSlabRef(slabs, b) == IF slabs = <<>> THEN b ELSE slabs[Len(slabs)].ref_end

\* A refusal that also strikes while the tracking is merely Dirty
AllocIsRefused_when_dirty(state) == state # "Clean"

\* Seeded fault: do_alloc without the check of the free-space state
AllocIsRefused_never(state) == FALSE

\* The refusal of do_alloc on lost free-space tracking
AllocIsRefused(state) == state = "Invalid"

\* do_alloc without the assignment of free_space_Dirty
MarkDirty_skipped(bk) == bk

\* m_free_space_state = free_space_Dirty at the start of do_alloc
MarkDirty(bk) == [bk EXCEPT !.state = "Dirty"]

\* do_alloc(size) on bookkeeping bk over baseline b.  oom names the throwing
\* step that fails: "buffer" (new char[new_size]), "slab" (m_slabs.push_back),
\* "chunk" (m_free_space.push_back), or "none".
do_alloc(bk, b, size, oom) ==
    IF AllocIsRefused(bk.state)
    THEN [book |-> bk, res |-> "InvalidFreeSpace", ref |-> 0, addr |-> NoAddr]
    ELSE
    LET dirty == MarkDirty(bk)
        i == ScanFreeSpace(bk.free_space, size)
    IN  IF i # 0
        THEN LET ref == bk.free_space[i].ref IN
             [book |-> [dirty EXCEPT !.free_space = TakeFromChunk(bk.free_space, i, size)],
              res |-> "ok", ref |-> ref, addr |-> translate_in(bk.slabs, b, ref)]
        ELSE
        LET new_size == NewSlabSize(bk.slabs, b, size)
            ref == NewSlabRef(bk.slabs, b)
            slab == [addr |-> Len(bk.heap) + 1, ref_end |-> Add(ref, new_size)]
            grown == [dirty EXCEPT !.slabs = Append(@, slab),
                                   !.heap = Append(@, new_size)]
            unused == Sub(new_size, size)
        IN  IF oom \in {"buffer", "slab"}
            THEN [book |-> dirty, res |-> "OutOfMemory", ref |-> 0, addr |-> NoAddr]
            ELSE IF 0 < unused /\ oom = "chunk"
            THEN [book |-> grown, res |-> "OutOfMemory", ref |-> 0, addr |-> NoAddr]
            ELSE [book |-> IF 0 < unused
                           THEN [grown EXCEPT !.free_space =
                                    Append(@, [ref |-> Add(ref, size), size |-> unused])]
                           ELSE grown,
                  res |-> "ok", ref |-> ref, addr |-> <<slab.addr, 0>>]

\* Seeded fault: every ref taken to be mutable
is_read_only_never(b, ref) == FALSE

\* is_read_only(ref)
is_read_only(b, ref) == ref < b

\* Seeded fault: consolidation without the slab border test
NoSlabEndsAt_unchecked(slabs, ref) == TRUE

\* find_if(m_slabs, SlabRefEndEq(ref)) == m_slabs.end(): no slab ends at ref
NoSlabEndsAt(slabs, ref) == \A k \in 1..Len(slabs) : slabs[k].ref_end # ref

\* Seeded fault: do_free without the early return
FreeIsDropped_never(state) == FALSE

\* The early return of do_free on lost free-space tracking
FreeIsDropped(state) == state = "Invalid"

\* Seeded fault: the chunk merged with the successor is not erased
MergeWithPredecessor_no_erase(fs, p, m, size) ==
    IF m # 0
    THEN [fs EXCEPT ![p].size = Add(@, fs[m].size)]
    ELSE [fs EXCEPT ![p].size = Add(@, size)]

\* Merge of the freed block into the chunk that ends at ref (index p), where
\* m is the index of the chunk already merged with the successor, or 0
MergeWithPredecessor(fs, p, m, size) ==
    IF m # 0
    THEN MoveLastOver([fs EXCEPT ![p].size = Add(@, fs[m].size)], m)
    ELSE [fs EXCEPT ![p].size = Add(@, size)]

\* do_free(ref, addr) on bookkeeping bk over baseline b, where size is what
\* the array header at addr reports; oom: the push_back of the chunk throws.
do_free(bk, b, ref, size, oom) ==
    LET read_only == is_read_only(b, ref)
        fs0 == IF read_only THEN bk.free_read_only ELSE bk.free_space
        ref_end == Add(ref, size)
        ChunkRefEq(fs, r) == [k \in 1..Len(fs) |-> fs[k].ref = r]
        ChunkRefEndEq(fs, r) == [k \in 1..Len(fs) |-> Add(fs[k].ref, fs[k].size) = r]
        s == FindIf(ChunkRefEq(fs0, ref_end))
        merged_with == IF s # 0 /\ NoSlabEndsAt(bk.slabs, ref_end) THEN s ELSE 0
        fs1 == IF merged_with # 0
               THEN [fs0 EXCEPT ![s] = [ref |-> ref, size |-> Add(@.size, size)]]
               ELSE fs0
        p == IF NoSlabEndsAt(bk.slabs, ref) THEN FindIf(ChunkRefEndEq(fs1, ref)) ELSE 0
        Put(fs, state) ==
            IF read_only
            THEN [bk EXCEPT !.free_read_only = fs, !.state = state]
            ELSE [bk EXCEPT !.free_space = fs, !.state = state]
    IN  IF FreeIsDropped(bk.state) THEN [book |-> bk, res |-> "ok"]
        ELSE IF ~(read_only \/ bk.state = "Dirty")
        THEN [book |-> bk, res |-> "assertion failed"]
        ELSE IF p # 0
        THEN [book |-> Put(MergeWithPredecessor(fs1, p, merged_with, size), "Dirty"),
              res |-> "ok"]
        ELSE IF merged_with # 0
        THEN [book |-> Put(fs1, "Dirty"), res |-> "ok"]
        ELSE IF oom
        THEN [book |-> Put(fs1, "Invalid"), res |-> "ok"]
        ELSE [book |-> Put(Append(fs1, [ref |-> ref, size |-> size]), "Dirty"),
              res |-> "ok"]

\* Writes a bookkeeping value back to the member variables
SetBook(bk) ==
    /\ m_slabs' = bk.slabs
    /\ m_free_space' = bk.free_space
    /\ m_free_read_only' = bk.free_read_only
    /\ m_free_space_state' = bk.state
    /\ heap' = bk.heap

OomSteps == {"none", "buffer", "slab", "chunk"}

Block(ref, size, addr) == [ref |-> ref, size |-> size, addr |-> addr]

OneBlock(blk) == SetToBag({blk})

\* alloc(size).  A failure is injected only at a step the call reaches.
Alloc ==
    \E size \in AllocSizes, oom \in OomSteps :
        LET r == do_alloc(Book, m_baseline, size, oom) IN
        /\ ~destroyed /\ pc = "idle"
        /\ is_attached
        /\ BagCardinality(live) < MaxLive
        /\ Len(r.book.slabs) <= MaxSlabs
        /\ oom # "none" => r.res = "OutOfMemory"
        /\ SetBook(r.book)
        /\ live' = IF r.res = "ok" THEN live (+) OneBlock(Block(r.ref, size, r.addr)) ELSE live
        /\ alloc_failed' = (alloc_failed \/ r.res = "OutOfMemory")
        /\ last' = Call("alloc", r.res, 0)
        /\ UNCHANGED <<attach_vars, ro_live, destroyed, io_vars>>

\* The push_back of do_free is reached and fails
PushFails(bk, b, ref, size) ==
    do_free(bk, b, ref, size, TRUE).book # do_free(bk, b, ref, size, FALSE).book

\* free(ref, addr) of a live mutable block
FreeMutable ==
    \E blk \in BagToSet(live), oom \in BOOLEAN :
        LET r == do_free(Book, m_baseline, blk.ref, blk.size, oom) IN
        /\ ~destroyed /\ pc = "idle"
        /\ is_attached
        /\ oom => PushFails(Book, m_baseline, blk.ref, blk.size)
        /\ SetBook(r.book)
        /\ live' = live (-) OneBlock(blk)
        /\ alloc_failed' = (alloc_failed \/ r.book.state = "Invalid")
        /\ last' = Call("free", r.res, blk.ref)
        /\ UNCHANGED <<attach_vars, ro_live, destroyed, io_vars>>

\* free(ref, addr) of an array of the read-only region
FreeReadOnly ==
    \E a \in ro_live, oom \in BOOLEAN :
        LET r == do_free(Book, m_baseline, a[1], a[2], oom) IN
        /\ ~destroyed /\ pc = "idle"
        /\ is_attached
        /\ oom => PushFails(Book, m_baseline, a[1], a[2])
        /\ SetBook(r.book)
        /\ ro_live' = ro_live \ {a}
        /\ alloc_failed' = (alloc_failed \/ r.book.state = "Invalid")
        /\ last' = Call("free", r.res, a[1])
        /\ UNCHANGED <<attach_vars, live, destroyed, io_vars>>

\* realloc that releases the old block before it allocates the new one
do_realloc_free_first(bk, b, ref, size, new_size, oom, free_oom) ==
    do_alloc(do_free(bk, b, ref, size, free_oom).book, b, new_size, oom)

\* do_realloc(ref, addr, old_size, new_size): do_alloc, copy, do_free
do_realloc(bk, b, ref, size, new_size, oom, free_oom) ==
    LET a == do_alloc(bk, b, new_size, oom) IN
    IF a.res # "ok" THEN a
    ELSE [a EXCEPT !.book = do_free(a.book, b, ref, size, free_oom).book]

\* realloc of a live mutable block
ReallocMutable ==
    \E blk \in BagToSet(live), new_size \in AllocSizes, oom \in OomSteps, free_oom \in BOOLEAN :
        LET r == do_realloc(Book, m_baseline, blk.ref, blk.size, new_size, oom, free_oom) IN
        /\ ~destroyed /\ pc = "idle"
        /\ is_attached
        /\ Len(r.book.slabs) <= MaxSlabs
        /\ oom # "none" => r.res = "OutOfMemory"
        /\ free_oom => /\ r.res = "ok"
                       /\ PushFails(do_alloc(Book, m_baseline, new_size, oom).book,
                                    m_baseline, blk.ref, blk.size)
        /\ SetBook(r.book)
        /\ live' = IF r.res = "ok"
                   THEN (live (-) OneBlock(blk)) (+) OneBlock(Block(r.ref, new_size, r.addr))
                   ELSE live
        /\ alloc_failed' = (alloc_failed \/ r.res = "OutOfMemory" \/ r.book.state = "Invalid")
        /\ last' = Call("realloc", r.res, 0)
        /\ UNCHANGED <<attach_vars, ro_live, destroyed, io_vars>>

\* realloc of an array of the read-only region
ReallocReadOnly ==
    \E a \in ro_live, new_size \in AllocSizes, oom \in OomSteps, free_oom \in BOOLEAN :
        LET r == do_realloc(Book, m_baseline, a[1], a[2], new_size, oom, free_oom) IN
        /\ ~destroyed /\ pc = "idle"
        /\ is_attached
        /\ BagCardinality(live) < MaxLive
        /\ Len(r.book.slabs) <= MaxSlabs
        /\ oom # "none" => r.res = "OutOfMemory"
        /\ free_oom => /\ r.res = "ok"
                       /\ PushFails(do_alloc(Book, m_baseline, new_size, oom).book,
                                    m_baseline, a[1], a[2])
        /\ SetBook(r.book)
        /\ live' = IF r.res = "ok" THEN live (+) OneBlock(Block(r.ref, new_size, r.addr))
                   ELSE live
        /\ ro_live' = IF r.res = "ok" THEN ro_live \ {a} ELSE ro_live
        /\ alloc_failed' = (alloc_failed \/ r.res = "OutOfMemory" \/ r.book.state = "Invalid")
        /\ last' = Call("realloc", r.res, 0)
        /\ UNCHANGED <<attach_vars, destroyed, io_vars>>

\* The arrays of the attached image
AttachedArrays ==
    IF m_data = "user" THEN BufferArrays
    ELSE IF m_data = "map" THEN ArraysOf(files[m_file])
    ELSE {}

\* Seeded fault: chunk.ref = i->ref_end forgotten, every chunk starts at the
\* baseline
WholeSlabChunks_ref_kept(slabs, b, n) ==
    [k \in 1..n |-> [ref |-> b, size |-> Sub(slabs[k].ref_end, b)]]

\* The free list reset_free_space_tracking rebuilds from the first n slabs
RECURSIVE WholeSlabChunks(_, _, _)
WholeSlabChunks(slabs, b, n) ==
    IF n = 0 THEN <<>>
    ELSE Append(WholeSlabChunks(slabs, b, n - 1),
                [ref |-> SlabStart(slabs, b, n),
                 size |-> Sub(slabs[n].ref_end, SlabStart(slabs, b, n))])

\* is_all_free() of free list fs, slab list slabs and baseline b
is_all_free_in(fs, slabs, b) ==
    /\ Len(fs) = Len(slabs)
    /\ \A k \in 1..Len(slabs) :
          LET slab_ref == SlabStart(slabs, b, k)
              c == FindIf([j \in 1..Len(fs) |-> fs[j].ref = slab_ref])
          IN  c # 0 /\ fs[c].size = Sub(slabs[k].ref_end, slab_ref)

is_all_free == is_all_free_in(m_free_space, m_slabs, m_baseline)

\* reset_free_space_tracking() on bookkeeping bk; fail_at = k > 0: the k-th
\* push_back throws
reset_free_space_tracking(bk, b, fail_at) ==
    IF bk.state = "Clean" THEN [book |-> bk, res |-> "ok"]
    ELSE IF fail_at # 0
    THEN [book |-> [bk EXCEPT !.free_read_only = <<>>,
                              !.free_space = WholeSlabChunks(bk.slabs, b, fail_at - 1)],
          res |-> "OutOfMemory"]
    ELSE [book |-> [bk EXCEPT !.free_read_only = <<>>,
                              !.free_space = WholeSlabChunks(bk.slabs, b, Len(bk.slabs)),
                              !.state = "Clean"],
          res |-> "ok"]

\* reset_free_space_tracking(): the caller has committed, so no block
\* handed out before the call is in use after it
Reset ==
    \E fail_at \in 0..Len(m_slabs) :
        LET r == reset_free_space_tracking(Book, m_baseline, fail_at) IN
        /\ ~destroyed /\ pc = "idle"
        /\ is_attached
        /\ fail_at # 0 => m_free_space_state # "Clean"
        /\ SetBook(r.book)
        /\ live' = EmptyBag
        /\ ro_live' = AttachedArrays
        /\ alloc_failed' = (r.res # "ok")
        /\ last' = Call("reset", r.res, 0)
        /\ UNCHANGED <<attach_vars, destroyed, io_vars>>

\* Sum of the sizes of the first n chunks of fs
RECURSIVE SumSizes(_, _)
SumSizes(fs, n) == IF n = 0 THEN 0 ELSE Add(SumSizes(fs, n - 1), fs[n].size)

\* A rebase loop that leaves the chunks' refs where they were
RebasedFreeSpace_not_shifted(fs, file_size) == fs

\* The rebase loop of remap: chunk i and slab i move to follow file_size
RebasedFreeSpace(fs, file_size) ==
    [i \in 1..Len(fs) |-> [ref |-> Add(file_size, SumSizes(fs, i - 1)), size |-> fs[i].size]]

\* Seeded fault: remap that leaves the slabs' ref ranges where they were
RebasedSlabs_not_shifted(slabs, fs, file_size) == slabs

RebasedSlabs(slabs, fs, file_size) ==
    [i \in 1..Len(slabs) |->
        IF i <= Len(fs)
        THEN [addr |-> slabs[i].addr, ref_end |-> Add(file_size, SumSizes(fs, i))]
        ELSE slabs[i]]

\* remap(file_size); io_fails: m_file.remap throws
Remap ==
    \E file_size \in RemapSizes, io_fails \in BOOLEAN :
        /\ ~destroyed /\ pc = "idle"
        /\ m_attach_mode \in {"SharedFile", "UnsharedFile"}
        /\ m_free_space_state = "Clean"
        /\ m_baseline <= file_size
        /\ file_size % 8 = 0
        /\ Len(m_slabs) = Len(m_free_space)
        /\ IF io_fails
           THEN /\ last' = Call("remap", "io error", 0)
                /\ UNCHANGED <<m_baseline, m_slabs, m_free_space>>
           ELSE /\ m_baseline' = file_size
                /\ m_free_space' = RebasedFreeSpace(m_free_space, file_size)
                /\ m_slabs' = RebasedSlabs(m_slabs, m_free_space, file_size)
                /\ last' = Call("remap", "ok", 0)
        /\ UNCHANGED <<m_attach_mode, m_data, m_file_on_streaming_form, m_file_format,
                       files, m_file, m_free_read_only, m_free_space_state, heap,
                       live, ro_live, alloc_failed, destroyed, io_vars>>

\* get_free_read_only()
GetFreeReadOnly ==
    /\ ~destroyed /\ pc = "idle"
    /\ is_attached
    /\ last' = Call("get_free_read_only",
                    IF m_free_space_state = "Invalid" THEN "InvalidFreeSpace" ELSE "ok", 0)
    /\ UNCHANGED <<attach_vars, alloc_vars, live, ro_live, alloc_failed, destroyed, io_vars>>

\* do_prepare_for_update(mutable_data, mapping), in the three steps between
\* which the file can be seen from outside: the copy of the footer's top ref
\* into slot 1, mapping.sync(), the flip of the select bit.

\* The assertions on the header and the footer; whether they are compiled
\* in depends on the build
matches_streaming_header(image) ==
    /\ image.header.flags = streaming_header.flags
    /\ image.header.mnemonic = streaming_header.mnemonic
    /\ image.header.top_ref = streaming_header.top_ref
    /\ image.footer.magic_cookie = footer_magic_cookie

\* header->m_top_ref[1] = footer->m_top_ref
CopiedTopRef(image) == [image EXCEPT !.header.top_ref[2] = image.footer.top_ref]

\* Seeded fault: the copy is not synced before the flip
mapping_sync_skipped(on_disk, mapped) == on_disk

\* mapping.sync(): what is on the storage device afterwards
mapping_sync(on_disk, mapped) == mapped

\* header->m_flags |= flags_SelectBit
SelectBitSet(image) ==
    [image EXCEPT !.header.flags = @ + (IF @ % 2 = 0 THEN flags_SelectBit ELSE 0)]

DoPrepareCopy ==
    \E assertions \in BOOLEAN :
        /\ ~destroyed /\ pc = "idle"
        /\ m_attach_mode \in {"SharedFile", "UnsharedFile"}
        /\ m_file_on_streaming_form
        /\ IF assertions /\ ~matches_streaming_header(files[m_file])
           THEN /\ pc' = "aborted"
                /\ last' = Call("prepare_for_update", "assertion failed", 0)
                /\ UNCHANGED files
           ELSE /\ pc' = "copied"
                /\ last' = Call("prepare_for_update", "copied", 0)
                /\ files' = [files EXCEPT ![m_file] = CopiedTopRef(@)]
        /\ UNCHANGED <<m_attach_mode, m_data, m_baseline, m_file_on_streaming_form,
                       m_file_format, m_file, alloc_vars, live, ro_live, alloc_failed,
                       destroyed, disk>>

DoPrepareSync ==
    /\ pc = "copied"
    /\ pc' = "synced"
    /\ disk' = [disk EXCEPT ![m_file] = mapping_sync(@, files[m_file])]
    /\ last' = Call("prepare_for_update", "synced", 0)
    /\ UNCHANGED <<attach_vars, alloc_vars, live, ro_live, alloc_failed, destroyed>>

DoPrepareFlip ==
    /\ pc = "synced"
    /\ pc' = "idle"
    /\ files' = [files EXCEPT ![m_file] = SelectBitSet(@)]
    /\ m_file_on_streaming_form' = FALSE
    /\ last' = Call("prepare_for_update", "ok", 0)
    /\ UNCHANGED <<m_attach_mode, m_data, m_baseline, m_file_format, m_file, alloc_vars,
                   live, ro_live, alloc_failed, destroyed, disk>>

\* The operating system writes modified bytes of a mapped file to the
\* storage device at any time and in any order: slot 1, the flags byte, or
\* both.  A crash leaves the file as disk holds it.
Writeback ==
    \E p \in DOMAIN files, part \in {"top_ref", "flags", "both"} :
        LET with_top_ref == [disk[p] EXCEPT !.header.top_ref = files[p].header.top_ref]
            with_flags == [disk[p] EXCEPT !.header.flags = files[p].header.flags]
            written == IF part = "top_ref" THEN with_top_ref
                       ELSE IF part = "flags" THEN with_flags
                       ELSE files[p]
        IN  /\ files[p].size = disk[p].size
            /\ written # disk[p]
            /\ disk' = [disk EXCEPT ![p] = written]
            /\ UNCHANGED <<attach_vars, alloc_vars, live, ro_live, alloc_failed,
                           destroyed, last, pc>>

\* detach(): releases m_data by attach mode, closes the file
detach_effect ==
    /\ m_attach_mode' = "None"
    /\ m_file' = IF m_attach_mode \in {"SharedFile", "UnsharedFile"} THEN "" ELSE m_file

Detach ==
    /\ ~destroyed /\ pc = "idle"
    /\ is_attached
    /\ detach_effect
    /\ last' = Call("detach", "ok", 0)
    /\ UNCHANGED <<m_data, m_baseline, m_file_on_streaming_form, m_file_format, files,
                   alloc_vars, live, ro_live, alloc_failed, destroyed, io_vars>>

\* ~SlabAlloc(): the debug leak check, the release of every slab buffer, detach
leak_detected ==
    /\ is_attached
    /\ m_attach_mode # "SharedFile"
    /\ m_free_space_state # "Invalid"
    /\ ~is_all_free

Destroy ==
    /\ ~destroyed /\ pc = "idle"
    /\ destroyed' = TRUE
    /\ last' = Call("destroy", IF leak_detected THEN "leak" ELSE "ok", 0)
    /\ IF is_attached THEN detach_effect ELSE UNCHANGED <<m_attach_mode, m_file>>
    \* the slab buffers are deleted and the member vectors destroyed
    /\ heap' = <<>>
    /\ m_slabs' = <<>>
    /\ m_free_space' = <<>>
    /\ m_free_read_only' = <<>>
    /\ live' = EmptyBag
    /\ ro_live' = {}
    /\ UNCHANGED <<m_data, m_baseline, m_file_on_streaming_form, m_file_format, files,
                   m_free_space_state, alloc_failed, io_vars>>

\* ------------------------------------------------------------ specification
\* The lifecycle of one allocator: constructed detached, attached by one
\* call of an attach operation, used, destroyed.
Unattached == last.op = "init"

Next ==
    \/ Unattached /\ AttachFile
    \/ Unattached /\ AttachBuffer
    \/ Unattached /\ AttachEmpty
    \/ Alloc
    \/ FreeMutable
    \/ FreeReadOnly
    \/ ReallocMutable
    \/ ReallocReadOnly
    \/ Reset
    \/ Remap
    \/ GetFreeReadOnly
    \/ Destroy

Spec == Init /\ [][Next]_vars

\* The allocator attached, detached and attached again, over the core files
\* and one more file or buffer that is rejected or accepted at attach
LifecyclePaths == CorePaths \cup {"image"}

InitLifecycle ==
    \E image \in RejectedImages \cup AcceptedImages :
        /\ Constructed
        /\ files = [p \in LifecyclePaths |-> IF p = "image" THEN image ELSE InitFiles[p]]
        /\ disk = files

AttachImage == attach_buffer(files["image"], files["image"].size)

NextLifecycle ==
    \/ AttachFile
    \/ AttachImage
    \/ AttachEmpty
    \/ Reset
    \/ Detach
    \/ Destroy

SpecLifecycle == InitLifecycle /\ [][NextLifecycle]_vars

\* validate_buffer applied to one buffer, directly and through attach_buffer
InitValidate ==
    \E image \in HeaderImages :
        /\ Constructed
        /\ files = [p \in {"image"} |-> image]
        /\ disk = files

\* validate_buffer(data, size, top_ref, is_shared); the caller has cleared
\* m_file_on_streaming_form
ValidateBuffer ==
    \E is_shared \in BOOLEAN :
        LET data == files["image"]
            v == validate_buffer(data, data.size, is_shared)
        IN  /\ ~destroyed /\ pc = "idle"
            /\ ~is_attached
            /\ m_file_on_streaming_form' = v.streaming
            /\ last' = [op |-> "validate_buffer",
                        res |-> IF v.err = "" THEN "ok" ELSE "InvalidDatabase: " \o v.err,
                        ref |-> v.top_ref, is_shared |-> is_shared]
            /\ UNCHANGED <<m_attach_mode, m_data, m_baseline, m_file_format, files, m_file,
                           alloc_vars, live, ro_live, alloc_failed, destroyed, io_vars>>

NextValidate ==
    \/ ValidateBuffer
    \/ AttachImage

SpecValidate == InitValidate /\ [][NextValidate]_vars

\* The conversion of a file in streaming form: the file is attached, the
\* header converted at the first write, the allocator detached and the file
\* attached again, while the operating system writes the mapping back
StreamingImages ==
    { image \in HeaderImages :
        /\ image.header.top_ref[1] = StreamingSentinel
        /\ image.header.mnemonic = "T-DB"
        /\ image.header.flags % 2 = 0
        /\ image.size = 40
        /\ image.footer.magic_cookie = footer_magic_cookie }

InitStreaming ==
    \E image \in StreamingImages :
        /\ Constructed
        /\ files = [p \in {"image"} |-> image]
        /\ disk = files

NextStreaming ==
    \/ AttachFile
    \/ DoPrepareCopy
    \/ DoPrepareSync
    \/ DoPrepareFlip
    \/ Writeback
    \/ Detach

SpecStreaming == InitStreaming /\ [][NextStreaming]_vars

\* One allocator attached, used, detached and attached again: detach leaves
\* the slabs and the free lists to the next attachment.  The files are
\* attached read-only, so that they stay as they are
AttachFileReadOnly ==
    \E path \in DOMAIN files, is_shared \in BOOLEAN :
        attach_file(path, is_shared, TRUE, TRUE, FALSE, FALSE, FALSE, FALSE)

NextReattach ==
    \/ AttachFileReadOnly
    \/ AttachBuffer
    \/ AttachEmpty
    \/ Alloc
    \/ Reset
    \/ Detach

SpecReattach == Init /\ [][NextReattach]_vars

\* ------------------------------------------------------------- properties
LiveBlocks == BagToSet(live)

RefRangesDisjoint(b1, b2) ==
    b1.ref + b1.size <= b2.ref \/ b2.ref + b2.size <= b1.ref

SlabSize(i) == Sub(m_slabs[i].ref_end, SlabStart(m_slabs, m_baseline, i))

\* C1 (Disjointness): during one attachment, no block is handed out twice
\* and any two live blocks (allocated and not freed since the last reset)
\* have disjoint ref ranges.
C1_Disjointness ==
    \A b1 \in LiveBlocks :
        /\ CopiesIn(b1, live) = 1
        /\ \A b2 \in LiveBlocks \ {b1} : RefRangesDisjoint(b1, b2)

\* Two live blocks next to each other in one slab, the second just allocated
C1_Witness ==
    /\ last.op = "alloc" /\ last.res = "ok"
    /\ \E b1, b2 \in LiveBlocks :
          b1.ref + b1.size = b2.ref /\ b1.addr[1] = b2.addr[1]

\* C2 (Alignment): every ref returned by alloc(s) with s % 8 = 0 is a
\* multiple of 8, whatever attach operation was used (attach_file with or
\* without skip_validate, attach_buffer, attach_empty).
C2_Alignment == \A blk \in LiveBlocks : blk.ref % 8 = 0

\* Where the baseline is a multiple of 8 the refs are: the misaligned refs
\* come from the baseline that attach_file commits without validation
AlignedOverAlignedBaseline ==
    m_baseline % 8 = 0 => \A blk \in LiveBlocks : blk.ref % 8 = 0

C5_FullCoalescing ==
    (/\ is_attached
     /\ m_free_space_state # "Invalid"
     /\ ~alloc_failed
     /\ LiveBlocks = {})
    => is_all_free

\* Blocks of two slabs were allocated and the last of them has been freed
C5_Witness ==
    /\ is_attached
    /\ m_free_space_state = "Dirty"
    /\ ~alloc_failed
    /\ LiveBlocks = {}
    /\ last.op = "free" /\ last.ref >= m_baseline
    /\ Len(m_slabs) = 2
    /\ is_all_free

\* C6 (Invalid free-space sticks): a free whose push fails returns normally
\* and leaves the state Invalid; while the state is Invalid every alloc and
\* every get_free_read_only fails with InvalidFreeSpace and leaves the slab
\* list and both free lists unchanged; only reset_free_space_tracking ends
\* the Invalid state; and the alloc that follows a successful reset is not
\* refused (it succeeds unless memory runs out).
C6_InvalidSticks ==
    [][ /\ (/\ last'.op = "free"
            /\ m_free_space_state # "Invalid"
            /\ m_free_space_state' = "Invalid") => last'.res = "ok"
        /\ (/\ m_free_space_state = "Invalid"
            /\ last'.op \in {"alloc", "get_free_read_only"})
           => /\ last'.res = "InvalidFreeSpace"
              /\ UNCHANGED <<m_slabs, m_free_space, m_free_read_only, m_free_space_state>>
        /\ (/\ m_free_space_state = "Invalid"
            /\ m_free_space_state' # "Invalid") => last'.op = "reset"
        /\ (last.op = "reset" /\ last.res = "ok" /\ last'.op = "alloc")
           => last'.res \in {"ok", "OutOfMemory"}
      ]_vars

\* An alloc was refused after a free lost its chunk (an allocator attached
\* by attach_empty starts Clean, so only a failed push makes it Invalid)
C6_Witness ==
    /\ m_attach_mode = "OwnedBuffer"
    /\ m_free_space_state = "Invalid"
    /\ last.op = "alloc" /\ last.res = "InvalidFreeSpace"
    /\ Len(m_slabs) > 0

\* C7 (free while Invalid is a no-op): a free called while the free-space
\* state is Invalid leaves m_free_space, m_free_read_only, the slab list,
\* the baseline and the state unchanged, for read-only and mutable refs.
C7_FreeWhileInvalidIsNoOp ==
    [][ (m_free_space_state = "Invalid" /\ last'.op = "free")
        => UNCHANGED <<m_free_space, m_free_read_only, m_slabs, m_baseline,
                       m_free_space_state>>
      ]_vars

\* Both arrays of a user's buffer were freed, the second while the state
\* was Invalid: recorded, it would have merged with the first
C7_Witness ==
    /\ m_attach_mode = "UsersBuffer"
    /\ m_free_space_state = "Invalid"
    /\ last.op = "free"
    /\ ro_live = {}
    /\ Len(m_free_read_only) = 1
    /\ m_free_read_only[1].size = 8

\* C8 (reset to Clean): after a successful reset_free_space_tracking the
\* state is Clean, m_free_read_only is empty, is_all_free() holds, the slab
\* list is unchanged, and an alloc of a size no larger than some slab is
\* served from the free list without a new slab.
C8_ResetToClean ==
    [][ (last'.op = "reset" /\ last'.res = "ok")
        => /\ m_free_space_state' = "Clean"
           /\ m_free_read_only' = <<>>
           /\ is_all_free'
           /\ m_slabs' = m_slabs
           /\ \A size \in AllocSizes, oom \in OomSteps :
                 (\E i \in 1..Len(m_slabs') : size <= SlabSize(i)')
                 => LET r == do_alloc(Book', m_baseline', size, oom) IN
                    /\ r.res = "ok"
                    /\ r.book.slabs = m_slabs'
                    /\ \E i \in 1..Len(m_slabs') :
                          /\ SlabStart(m_slabs', m_baseline', i) <= r.ref
                          /\ r.ref + size <= m_slabs'[i].ref_end
      ]_vars

\* A reset has just rebuilt the free list of two slabs
C8_Witness ==
    /\ last.op = "reset" /\ last.res = "ok"
    /\ Len(m_slabs) = 2
    /\ m_free_space_state = "Clean"

\* C9 (a failed reset invalidates): when reset_free_space_tracking fails
\* with out-of-memory, the free-space state afterwards is Invalid.
C9_FailedResetInvalidates ==
    [][ (last'.op = "reset" /\ last'.res = "OutOfMemory")
        => m_free_space_state' = "Invalid"
      ]_vars

NewBlocks == {blk \in BagToSet(live') : CopiesIn(blk, live') > CopiesIn(blk, live)}

Max(a, b) == IF a < b THEN b ELSE a

RECURSIVE Pow2(_)
Pow2(n) == IF n = 0 THEN 1 ELSE 2 * Pow2(n - 1)

\* Sizes of requests that the growth rule is evaluated on: below, at and
\* above one granule, and above twice the largest slab of the model
GrowthSizes == {8, 128, 256, 264, 768, 2048, 4096}

\* Size of slab i of slab list s over baseline b
SlabSizeIn(s, b, i) == Sub(s[i].ref_end, SlabStart(s, b, i))

LastSlabSize == IF m_slabs = <<>> THEN 0 ELSE SlabSize(Len(m_slabs))

\* Size of the last slab after the step
GrownSlabSize == SlabSizeIn(m_slabs', m_baseline', Len(m_slabs'))

C12_RemapRebases ==
    [][ last'.op = "remap" /\ last'.res = "ok"
        => /\ m_baseline' \in RemapSizes
           /\ m_baseline' >= m_baseline
           /\ Len(m_slabs') = Len(m_slabs)
           /\ \A i \in 1..Len(m_slabs) :
                 /\ m_slabs'[i].addr = m_slabs[i].addr
                 /\ SlabSizeIn(m_slabs', m_baseline', i) = SlabSize(i)
                 /\ SlabStart(m_slabs', m_baseline', i)
                       = SlabStart(m_slabs, m_baseline, i) + (m_baseline' - m_baseline)
                 /\ m_slabs'[i].ref_end = m_slabs[i].ref_end + (m_baseline' - m_baseline)
                 /\ m_free_space'[i] = [ref  |-> SlabStart(m_slabs', m_baseline', i),
                                        size |-> SlabSizeIn(m_slabs', m_baseline', i)]
           /\ m_free_space_state' = "Clean"
           /\ is_all_free_in(m_free_space', m_slabs', m_baseline')
           /\ UNCHANGED <<m_attach_mode, heap>>
      ]_vars

\* A remap has just moved two slabs of different sizes up from the end of
\* the file that was attached
C12_Witness ==
    /\ last.op = "remap" /\ last.res = "ok"
    /\ Len(m_slabs) = 2
    /\ SlabSize(2) > SlabSize(1)
    /\ m_baseline > files[m_file].size
    /\ SlabStart(m_slabs, m_baseline, 1) = m_baseline

FileAttached == m_attach_mode \in {"SharedFile", "UnsharedFile"}

\* C19 (free-space state after attach_file): a successful attach_file leaves
\* the state Invalid; from then until reset_free_space_tracking is called,
\* the state stays Invalid, every alloc fails with InvalidFreeSpace and
\* every free changes nothing; the reset makes the state Clean, after which
\* an alloc of any size succeeds.
C19_InvalidAfterAttachFile ==
    [][ /\ last'.op = "attach_file" /\ last'.res = "ok"
           => m_free_space_state' = "Invalid"
        /\ FileAttached /\ m_free_space_state = "Invalid" /\ last'.op # "reset"
           => /\ m_free_space_state' = "Invalid"
              /\ last'.op = "alloc"
                 => last'.res = "InvalidFreeSpace" /\ UNCHANGED <<alloc_vars, live>>
              /\ last'.op = "free"
                 => UNCHANGED alloc_vars
        /\ FileAttached /\ m_free_space_state = "Invalid"
              /\ last'.op = "reset" /\ last'.res = "ok"
           => /\ m_free_space_state' = "Clean"
              /\ \A size \in AllocSizes :
                    do_alloc(Book', m_baseline', size, "none").res = "ok"
      ]_vars

\* An alloc has been refused after attach_file
C19_Witness ==
    /\ FileAttached
    /\ last.op = "alloc" /\ last.res = "InvalidFreeSpace"
    /\ m_free_space_state = "Invalid"

\* C20 (free-space state after attach_buffer and attach_empty): a successful
\* attach_buffer or attach_empty leaves the state Invalid, and an alloc
\* between that attach and the first reset_free_space_tracking fails with
\* InvalidFreeSpace.
C20_InvalidAfterAttachBuffer ==
    [][ /\ last'.op \in {"attach_buffer", "attach_empty"} /\ last'.res = "ok"
           => m_free_space_state' = "Invalid"
        /\ last.op \in {"attach_buffer", "attach_empty"} /\ last.res = "ok"
              /\ last'.op = "alloc"
           => last'.res = "InvalidFreeSpace"
      ]_vars

\* The file a call of attach_file named, before and after the call
FileBefore == files[last'.path]
FileAfter == files'[last'.path]

\* C17 (empty-file attach): attach_file on a zero-length file opened
\* non-read-only writes the canonical header (both top refs 0, magic T-DB,
\* both format bytes the library format, select 0), grows the file to 4096
\* bytes, returns top ref 0 and sets the baseline to 4096; opened read-only
\* it fails with InvalidDatabase, leaves the allocator detached and writes
\* nothing to the file.
C17_EmptyFileAttach ==
    [][ last'.op = "attach_file" /\ FileBefore.exists /\ FileBefore.size = 0
        => IF last'.read_only
           THEN /\ last'.res = "InvalidDatabase: read-only empty"
                /\ m_attach_mode' = "None"
                /\ files' = files /\ disk' = disk
                /\ UNCHANGED <<m_baseline, m_data>>
           ELSE /\ FileAfter.size = 4096
                /\ FileAfter.header.top_ref = <<0, 0>>
                /\ FileAfter.header.mnemonic = "T-DB"
                /\ FileAfter.header.file_format = <<library_file_format, library_file_format>>
                /\ FileAfter.header.flags % 2 = 0
                /\ last'.res \in {"ok", "InvalidDatabase: decryption failed"}
                /\ last'.res = "ok"
                   => /\ last'.ref = 0
                      /\ m_baseline' = 4096
                      /\ m_attach_mode' \in {"SharedFile", "UnsharedFile"}
      ]_vars

\* attach_file has just created the database in a file that was empty
C17_Witness ==
    /\ last.op = "attach_file" /\ last.res = "ok" /\ ~last.read_only
    /\ InitFiles[last.path].size = 0
    /\ files[last.path].size = 4096
    /\ m_baseline = 4096

\* C16 (attach exception safety): whenever attach_file or attach_buffer
\* fails, the allocator is left detached, with attach mode None and the
\* baseline and data pointer not committed, and after attach_file the file
\* handle is closed; the precondition of a later attach on the same
\* instance holds.
C16_AttachExceptionSafety ==
    [][ last'.op \in {"attach_file", "attach_buffer"} /\ last'.res # "ok"
        => /\ m_attach_mode' = "None"
           /\ UNCHANGED <<m_baseline, m_data, m_file_format>>
           /\ last'.op = "attach_file" => m_file' = ""
           /\ ~destroyed' /\ pc' = "idle"
      ]_vars

\* attach_file has failed on a bad header after an earlier attachment was
\* detached, and the allocator is detached with the file closed
C16_Witness ==
    /\ last.op = "attach_file"
    /\ last.res = "InvalidDatabase: bad header 3"
    /\ m_attach_mode = "None"
    /\ m_file = ""
    /\ m_baseline # 0

\* The server-sync bit stored in an image (flag bit 1)
ServerSyncBit(image) == (image.header.flags \div 2) % 2 = 1

\* C18 (server-sync mode is fixed at creation): an attach_file that creates
\* the file stores the caller's server_sync_mode in flag bit 1; an
\* attach_file of a file that exists succeeds only if the caller's
\* server_sync_mode equals the stored bit and otherwise fails with
\* InvalidDatabase, leaving the allocator detached; no step changes the
\* stored bit of a file that exists.
C18_ServerSyncFixed ==
    [][ /\ last'.op = "attach_file" /\ FileBefore.size = 0 /\ last'.res = "ok"
           => ServerSyncBit(FileAfter) = last'.server_sync_mode
        /\ last'.op = "attach_file" /\ FileBefore.size # 0
           => /\ last'.res = "ok" => last'.server_sync_mode = ServerSyncBit(FileBefore)
              /\ last'.server_sync_mode # ServerSyncBit(FileBefore)
                 => /\ last'.res \notin {"ok", "open failed"}
                    /\ m_attach_mode' = "None"
        /\ \A p \in DOMAIN files :
              files[p].size # 0 => ServerSyncBit(files'[p]) = ServerSyncBit(files[p])
      ]_vars

\* A file created with server synchronization has been attached again
\* without it, and the attach was refused
C18_Witness ==
    /\ last.op = "attach_file"
    /\ last.res = "InvalidDatabase: server sync mismatch"
    /\ ~last.server_sync_mode
    /\ last.path \in CorePaths
    /\ InitFiles[last.path].size = 0
    /\ ServerSyncBit(files[last.path])
    /\ m_attach_mode = "None"

\* The reference procedure of header validation: the checks in their order,
\* each with the error it raises
Validated == files["image"]
ValidatedShared == IF last.op = "validate_buffer" THEN last.is_shared ELSE FALSE
RefSelect == Validated.header.flags % 2
RefStoredFormat == Validated.header.file_format[RefSelect + 1]
RefStreaming == RefSelect = 0 /\ Validated.header.top_ref[1] = StreamingSentinel
RefTopRef == IF RefStreaming THEN Validated.footer.top_ref
             ELSE Validated.header.top_ref[RefSelect + 1]
RefErrors == <<"bad size", "bad magic", "bad format", "streaming bad size",
               "bad header 1", "bad header 2", "bad header 3">>
RefFails ==
    << Validated.size < 24 \/ Validated.size % 8 # 0,
       Validated.header.mnemonic # "T-DB",
       RefStoredFormat # 3 /\ ~(RefStoredFormat = 2 /\ ValidatedShared),
       RefStreaming /\ Validated.size < 24 + 16,
       RefStreaming /\ Validated.footer.magic_cookie # "cookie",
       RefTopRef % 8 # 0,
       RefTopRef >= Validated.size >>
RefFirstFailing ==
    IF \E k \in 1..7 : RefFails[k]
    THEN CHOOSE k \in 1..7 : RefFails[k] /\ \A j \in 1..(k - 1) : ~RefFails[j]
    ELSE 0
RefResult == IF RefFirstFailing = 0 THEN "ok"
             ELSE "InvalidDatabase: " \o RefErrors[RefFirstFailing]

\* C13 (header validation): validate_buffer agrees with the reference
\* procedure on every buffer: the checks bad size, bad magic, bad format,
\* streaming bad size, bad footer cookie (#1), unaligned top ref (#2), top
\* ref >= size (#3) are applied in this order and the first that fails
\* decides the error; a stored format other than the library's is accepted
\* only as stored 2 under library 3 in shared mode, so never through
\* attach_buffer; on success the streaming flag is set, and the footer's
\* top ref returned, iff select = 0 and T[0] is the sentinel, and the
\* returned top ref is T[select] or the footer's, a multiple of 8 and below
\* size.
C13_ValidationReference ==
    last.op \in {"validate_buffer", "attach_buffer"}
    => /\ last.res = RefResult
       /\ m_file_on_streaming_form => RefStreaming
       /\ last.res = "ok"
          => /\ m_file_on_streaming_form <=> RefStreaming
             /\ last.ref = RefTopRef
             /\ last.ref % 8 = 0 /\ last.ref < Validated.size
             /\ RefStoredFormat # library_file_format
                => RefStoredFormat = 2 /\ last.op = "validate_buffer" /\ last.is_shared

\* validate_buffer has accepted a file of format 2 in shared mode
C13_Witness ==
    /\ last.op = "validate_buffer" /\ last.res = "ok" /\ last.is_shared
    /\ files["image"].header.file_format[RefSelect + 1] = 2

\* An image without the two things the conversion writes: slot 1 and the
\* select bit
OutsideConversion(image) ==
    [image EXCEPT !.header.top_ref[2] = 0, !.header.flags = (@ \div 2) * 2]

AttachedShared == m_attach_mode = "SharedFile"

\* C14 (streaming conversion): for a file that validated as streaming form
\* at attach, after prepare_for_update the header has slot 1 equal to the
\* footer's top ref and the select bit set, the server-sync bit and every
\* other byte of the file are as before, the allocator's streaming flag is
\* cleared, and validating the resulting bytes succeeds, reports a file not
\* in streaming form and returns the top ref the footer holds.
C14_StreamingConversion ==
    [][ /\ \A p \in DOMAIN files : OutsideConversion(files'[p]) = OutsideConversion(files[p])
        /\ last'.op = "prepare_for_update" /\ last'.res = "ok"
           => LET image == files'[m_file]
                  v == validate_buffer(image, image.size, AttachedShared)
              IN  /\ image.header.top_ref[2] = image.footer.top_ref
                  /\ image.header.flags % 2 = 1
                  /\ ~m_file_on_streaming_form'
                  /\ v.err = ""
                  /\ ~v.streaming
                  /\ v.top_ref = image.footer.top_ref
      ]_vars

\* The file as a crash would leave it
Persisted == disk["image"]

\* The same file before the conversion touched its select bit
PersistedBefore == [Persisted EXCEPT !.header.flags = (@ \div 2) * 2]

\* In the persisted file the select bit is never ahead of slot 1
FlipPersistedAfterCopy ==
    \/ /\ Persisted.header.flags % 2 = 0
       /\ Persisted.header.top_ref[1] = StreamingSentinel
    \/ /\ Persisted.header.flags % 2 = 1
       /\ Persisted.header.top_ref[2] = Persisted.footer.top_ref

\* C15 (crash ordering of prepare_for_update, disk sync enabled): the write
\* of slot 1 is persisted before the flip of the select bit can be, so at
\* every crash point the persisted file is either still in streaming form
\* or has select = 1 with slot 1 equal to the footer's top ref, and it
\* validates to the same top ref as before the conversion.
C15_CrashOrdering ==
    /\ FlipPersistedAfterCopy
    /\ \A is_shared \in BOOLEAN :
          LET before == validate_buffer(PersistedBefore, PersistedBefore.size, is_shared)
              now == validate_buffer(Persisted, Persisted.size, is_shared)
          IN  before.err = "" => now.err = "" /\ now.top_ref = before.top_ref

\* The blocks a step took out of the application's hands: mutable blocks
\* and arrays of the read-only region
ReleasedBlocks ==
    {[ref |-> blk.ref, size |-> blk.size] :
         blk \in {x \in BagToSet(live) : CopiesIn(x, live') < CopiesIn(x, live)}}
    \cup {[ref |-> a[1], size |-> a[2]] : a \in ro_live \ ro_live'}

\* Some chunk of the list covers the block's ref range
CoveredBy(fs, blk) ==
    \E k \in 1..Len(fs) :
        fs[k].ref <= blk.ref /\ blk.ref + blk.size <= fs[k].ref + fs[k].size

\* No chunk of the list shares a ref with the block
ClearOf(fs, blk) ==
    \A k \in 1..Len(fs) :
        fs[k].ref + fs[k].size <= blk.ref \/ blk.ref + blk.size <= fs[k].ref

ReallocOutcome(old_block_is_freed) ==
    IF last'.res = "ok"
    THEN /\ NewBlocks # {}
         /\ ReleasedBlocks # {}
         /\ \A new \in NewBlocks, old \in ReleasedBlocks :
               /\ new.ref # old.ref
               /\ RefRangesDisjoint(new, old)
               /\ ClearOf(m_free_space', new)
               /\ old_block_is_freed
                  => \/ CoveredBy(m_free_space', old)
                     \/ CoveredBy(m_free_read_only', old)
    ELSE /\ live' = live
         /\ ro_live' = ro_live
         /\ UNCHANGED <<m_free_space, m_free_read_only>>

\* C21 (realloc allocates before it frees): the block realloc returns is
\* disjoint from the old block and has another ref, the new block is live
\* and the old block is in a free list afterwards; when the allocation
\* step fails the old block is still live and neither free list changed.
C21_ReallocAllocatesFirst ==
    [][ last'.op = "realloc" => ReallocOutcome(TRUE) ]_vars

\* C21 as amended: the old block is in a free list afterwards unless the
\* push of its chunk failed, and then the free-space state is Invalid.
C21_ReallocAllocatesFirstOrInvalid ==
    [][ last'.op = "realloc"
        => ReallocOutcome(m_free_space_state' # "Invalid") ]_vars

\* A realloc returned, and the chunk of the old block is in m_free_space
\* next to the rest of its slab
C21_Witness ==
    /\ last.op = "realloc" /\ last.res = "ok"
    /\ m_free_space_state = "Dirty"
    /\ Len(m_slabs) = 2
    /\ \E k \in 1..Len(m_free_space) : m_free_space[k].ref = m_baseline
    /\ \E blk \in LiveBlocks : blk.ref >= m_slabs[1].ref_end

\* C22 (the only error of realloc is OutOfMemory): wherever its
\* preconditions hold (attached, ref live or in the file region, new_size
\* positive and a multiple of 8) realloc returns a new MemRef or fails with
\* OutOfMemory; it never fails with InvalidFreeSpace.
C22_ReallocOnlyOutOfMemory ==
    last.op = "realloc" => last.res \in {"ok", "OutOfMemory"}

\* C22 as amended: realloc returns a new MemRef or fails with OutOfMemory,
\* except that it fails with InvalidFreeSpace exactly when the free-space
\* state is Invalid at the call, and then it changes nothing.
C22_ReallocRefusedIffInvalid ==
    [][ last'.op = "realloc"
        => /\ last'.res \in {"ok", "OutOfMemory", "InvalidFreeSpace"}
           /\ last'.res = "InvalidFreeSpace" <=> m_free_space_state = "Invalid"
           /\ last'.res = "InvalidFreeSpace"
              => UNCHANGED <<alloc_vars, live, ro_live, m_baseline>>
      ]_vars

\* A realloc of an array of the attached file was refused: attach_file
\* leaves the free-space state Invalid
C22_Witness ==
    /\ last.op = "realloc" /\ last.res = "InvalidFreeSpace"
    /\ m_attach_mode \in {"SharedFile", "UnsharedFile"}
    /\ ro_live # {}
    /\ m_slabs = <<>>

\* The chunks of one free list: positive sizes that are multiples of 8, no
\* overlap, and adjacency only across the end of a slab
Coalesced(fs, slabs) ==
    /\ \A k \in 1..Len(fs) : fs[k].size > 0 /\ fs[k].size % 8 = 0
    /\ \A j, k \in 1..Len(fs) :
          j # k =>
            /\ fs[j].ref + fs[j].size <= fs[k].ref \/ fs[k].ref + fs[k].size <= fs[j].ref
            /\ fs[j].ref + fs[j].size = fs[k].ref
               => \E i \in 1..Len(slabs) : slabs[i].ref_end = fs[k].ref

ChunkPerSlabInOrder(fs, slabs, b) ==
    /\ Len(fs) = Len(slabs)
    /\ \A i \in 1..Len(slabs) :
          /\ fs[i].ref = SlabStart(slabs, b, i)
          /\ fs[i].ref + fs[i].size = slabs[i].ref_end

\* C24 (Clean-state invariant), the state part: whenever the free-space
\* state is Clean, m_free_read_only is empty, m_free_space has one chunk
\* per slab and chunk i is the whole ref range of slab i, in slab order.
C24_CleanShape ==
    m_free_space_state = "Clean"
    => /\ m_free_read_only = <<>>
       /\ ChunkPerSlabInOrder(m_free_space, m_slabs, m_baseline)

Fitting(size) == {k \in 1..Len(m_free_space) : m_free_space[k].size >= size}

Highest(S) == CHOOSE k \in S : \A j \in S : j <= k

\* What an alloc that returned blk did to m_free_space and the slab list
ServedFromHighestFit(blk) ==
    LET n == Len(m_free_space) IN
    IF Fitting(blk.size) = {}
    THEN /\ Len(m_slabs') = Len(m_slabs) + 1
         /\ blk.ref = get_total_size
    ELSE LET k == Highest(Fitting(blk.size)) IN
         /\ blk.ref = m_free_space[k].ref
         /\ m_slabs' = m_slabs
         /\ IF m_free_space[k].size = blk.size
            THEN /\ Len(m_free_space') = n - 1
                 /\ \A j \in 1..(n - 1) :
                       m_free_space'[j] = IF j = k THEN m_free_space[n] ELSE m_free_space[j]
            ELSE /\ Len(m_free_space') = n
                 /\ \A j \in 1..n :
                       m_free_space'[j] =
                          IF j = k
                          THEN [ref |-> m_free_space[k].ref + blk.size,
                                size |-> m_free_space[k].size - blk.size]
                          ELSE m_free_space[j]

\* C25 (allocation scan): an alloc(size) in a state that is not Invalid
\* returns the original ref of the highest-index chunk of m_free_space
\* with size >= size; a chunk of exactly that size is removed, the last
\* chunk moving into its slot, a larger one is shrunk in place to
\* {ref + size, chunk.size - size}; every other chunk keeps ref and size
\* and no slab is added; a slab is created only when no chunk fits.
C25_AllocationScan ==
    [][ (last'.op = "alloc" /\ m_free_space_state # "Invalid")
        => /\ last'.res = "ok"
              => /\ Cardinality(NewBlocks) = 1
                 /\ \A blk \in NewBlocks : ServedFromHighestFit(blk)
           /\ m_slabs' # m_slabs
              => \E size \in AllocSizes :
                    /\ Fitting(size) = {}
                    /\ last'.res = "ok" => \A blk \in NewBlocks : blk.size = size
      ]_vars

\* An alloc of 128 bytes found two chunks that fit and was served from
\* the one with the higher index, which it shrank in place
C25_Witness ==
    /\ last.op = "alloc" /\ last.res = "ok"
    /\ Len(m_free_space) = 2
    /\ m_free_space[1].size = 256
    /\ m_free_space[2].size \in {128, 384}
    /\ \E blk \in LiveBlocks :
          blk.size = 128 /\ blk.ref + blk.size = m_free_space[2].ref

\* Sum of the byte sizes of the buffers of the first n slabs
RECURSIVE SumBuffers(_)
SumBuffers(n) == IF n = 0 THEN 0 ELSE SumBuffers(n - 1) + heap[m_slabs[n].addr]

\* The slab list in one state: ref ends above the baseline and strictly
\* increasing, every slab beginning where its predecessor ends (the first
\* at the baseline) and spanning the bytes of its buffer
SlabsContiguousFromBaseline ==
    /\ \A i \in 1..Len(m_slabs) :
          /\ m_slabs[i].ref_end > m_baseline
          /\ i > 1 => m_slabs[i - 1].ref_end < m_slabs[i].ref_end
          /\ m_slabs[i].ref_end
               = (IF i = 1 THEN m_baseline ELSE m_slabs[i - 1].ref_end)
                 + heap[m_slabs[i].addr]
    /\ get_total_size = m_baseline + SumBuffers(Len(m_slabs))

\* C26 (slab list invariant): during one attachment, after any sequence
\* of alloc, free, realloc, reset_free_space_tracking and remap, the slab
\* ref_end values are strictly increasing and greater than the baseline,
\* the slab ranges are contiguous from the baseline, no slab is removed or
\* reordered, and get_total_size() is the baseline plus the sum of the
\* slab sizes and never decreases.
C26_SlabListInvariant ==
    [][ /\ is_attached => SlabsContiguousFromBaseline
        /\ last'.op \in {"alloc", "free", "realloc", "reset", "remap", "get_free_read_only"}
           => /\ SlabsContiguousFromBaseline'
              /\ Len(m_slabs') >= Len(m_slabs)
              /\ \A i \in 1..Len(m_slabs) :
                    /\ m_slabs'[i].addr = m_slabs[i].addr
                    /\ heap'[m_slabs'[i].addr] = heap[m_slabs[i].addr]
              /\ get_total_size' >= get_total_size
      ]_vars

\* Two slabs moved by a remap, and a block allocated after it from the
\* second
C26_Witness ==
    /\ last.op = "alloc" /\ last.res = "ok"
    /\ m_baseline \in RemapSizes
    /\ Len(m_slabs) = 2
    /\ m_slabs[1].ref_end = m_baseline + 256
    /\ m_slabs[2].ref_end = m_baseline + 768
    /\ \E blk \in LiveBlocks : blk.ref >= m_slabs[1].ref_end

\* C27 (the assertion of free never fires under valid use): for every
\* mutable block that alloc returned and that was not freed since the
\* last reset, the free-space state at the moment free is called on it is
\* Dirty or Invalid, and in the Invalid case free returns before the
\* assertion: no free ends in the failed assertion.
C27_FreeAssertionHolds ==
    /\ LiveBlocks # {} => m_free_space_state \in {"Dirty", "Invalid"}
    /\ last.op = "free" => last.res = "ok"

\* A mutable block was freed in state Dirty over an owned buffer while
\* another block stays live
C27_Witness ==
    /\ last.op = "free" /\ last.res = "ok"
    /\ last.ref >= m_baseline
    /\ m_attach_mode = "OwnedBuffer"
    /\ m_free_space_state = "Dirty"
    /\ LiveBlocks # {}
    /\ CoveredBy(m_free_space, [ref |-> last.ref, size |-> 128])

\* Sum of the sizes of a set of blocks
RECURSIVE SumBlocks(_)
SumBlocks(S) ==
    IF S = {} THEN 0
    ELSE LET blk == CHOOSE x \in S : TRUE IN blk.size + SumBlocks(S \ {blk})

\* The chunks of m_free_space as blocks
FreeChunks == {[ref |-> m_free_space[k].ref, size |-> m_free_space[k].size] :
                  k \in 1..Len(m_free_space)}

\* The live mutable blocks without their addresses
LiveRanges == {[ref |-> blk.ref, size |-> blk.size] : blk \in LiveBlocks}

C29_FailedAllocIntact ==
    [][ (last'.op = "alloc" /\ last'.res = "OutOfMemory")
        => /\ m_free_space_state' = "Dirty"
           /\ m_slabs' = m_slabs
           /\ m_free_space' = m_free_space
      ]_vars

\* What does hold of a failed alloc: the state is Dirty, m_free_space and
\* the live blocks are as before, and the slab list is as before or has
\* one more slab, none of whose refs is live or in m_free_space
FailedAllocKeepsFreeSpace ==
    [][ (last'.op = "alloc" /\ last'.res = "OutOfMemory")
        => /\ m_free_space_state' = "Dirty"
           /\ m_free_space' = m_free_space
           /\ live' = live
           /\ \/ m_slabs' = m_slabs
              \/ /\ Len(m_slabs') = Len(m_slabs) + 1
                 /\ SubSeq(m_slabs', 1, Len(m_slabs)) = m_slabs
                 /\ \A k \in 1..Len(m_free_space') :
                       m_free_space'[k].ref + m_free_space'[k].size <= get_total_size
                 /\ \A blk \in BagToSet(live') : blk.ref + blk.size <= get_total_size
      ]_vars

\* C30 (slab ranges survive re-attachment): in every state in which the
\* allocator is attached, also after a detach and a new attach_file,
\* attach_buffer or attach_empty with another baseline on the same
\* instance, the first slab starts at the current baseline, every slab's
\* ref span equals the byte size of the buffer allocated for it, and every
\* chunk of m_free_space lies at or above the baseline inside one slab.
C30_SlabRangesSurviveReattach ==
    is_attached
    => /\ m_slabs # <<>> => m_slabs[1].ref_end - heap[m_slabs[1].addr] = m_baseline
       /\ \A i \in 1..Len(m_slabs) : SlabSize(i) = heap[m_slabs[i].addr]
       /\ \A k \in 1..Len(m_free_space) :
             /\ m_free_space[k].ref >= m_baseline
             /\ \E i \in 1..Len(m_slabs) :
                   /\ SlabStart(m_slabs, m_baseline, i) <= m_free_space[k].ref
                   /\ m_free_space[k].ref + m_free_space[k].size <= m_slabs[i].ref_end

====
